---- MODULE Spec2Model ----
(***************************************************************************)
(* Mini-HDFS: the namenode (src/namenode.py) splits an uploaded file into  *)
(* chunks, STOREs every chunk on the fixed replica pair "0","1", records   *)
(* the nodes that answered OK, and reassembles a file on download by       *)
(* RETRIEVE from the recorded replicas.  Datanodes (src/datanode_0.py)     *)
(* keep the chunk blobs and send heartbeats.                               *)
(*                                                                         *)
(* Abstractions.  A byte string is a sequence of naturals; one element     *)
(* stands for one unit of length (CHUNK_SIZE units make a chunk).  A       *)
(* uuid4 chunk id is a fresh natural.  time.time() is the integer clock    *)
(* `now`, which starts at Epoch (the namenode is started long after        *)
(* 1970).  A network exchange is one step whose fault is chosen by the     *)
(* environment.                                                            *)
(***************************************************************************)
EXTENDS Integers, Sequences, FiniteSets, TLC

\* ------------------------------------------------------------------ bounds
MaxLen == 5          \* longest uploaded byte string, in units
MaxUploads == 1      \* uploads answered in one behaviour
MaxRestarts == 1     \* restarts of the namenode process in one behaviour
Epoch == 20          \* the clock's value when the model starts
MaxTime == 12        \* ticks the clock may advance
MaxRogue == 2        \* connections to the heartbeat port that are no heartbeat

\* ------------------------------------------------------- program constants
\* CHUNK_SIZE is 2 * 1024 * 1024 bytes: the model's unit of length is 1 MiB.
CHUNK_SIZE == 2
DND_TCP_BASE == 7001
HEARTBEAT_TIMEOUT == 10
\* sock.listen(5): the connections the heartbeat port queues
BACKLOG == 5

\* chunks an upload of L bytes makes: the iterations of `while idx < len(data)`
NumChunks(L) == (L + CHUNK_SIZE - 1) \div CHUNK_SIZE
\* chunk ids (uuid4 draws) available to all uploads of one behaviour
MaxIds == NumChunks(MaxLen)

\* ------------------------------------------------------------- environment
FileNames == {"a.bin", "b.bin"}    \* the names a client asks for
UploadNames == {"a.bin"}           \* the names a client uploads under
Bytes(L) == [i \in 1..L |-> i]
Payloads == {Bytes(L) : L \in 0..MaxLen}

\* The machine a host name or address leads to, seen from the namenode.
Machine(host) == IF host \in {"localhost", "127.0.0.1"} THEN "nn" ELSE host

\* The datanode processes of the deployment: python datanode.py <id> <port> ..,
\* with the source address the namenode sees on their connections.
DATANODES ==
    { [id |-> "0", host |-> "127.0.0.1", port |-> 7001],
      [id |-> "1", host |-> "127.0.0.1", port |-> 7002],
      [id |-> "0", host |-> "10.0.0.2", port |-> 7001] }
StoreAddrs == { <<Machine(d.host), d.port>> : d \in DATANODES }

\* What can go wrong on one TCP exchange with a chunk store: nothing; the
\* connection is refused or times out before the request is served; the
\* connection breaks after the request was served, before the reply arrives.
Faults == {"none", "refused", "timeout", "disconnect"}

Uploaders == {"u1"}
Downloaders == {"d1"}

\* the handler threads a chunk store has running at one time
Conns == {"c1", "c2"}

VARIABLES
    meta,        \* the catalog: files, chunks, datanodes
    disk,        \* METADATA_FILE: <<>> when absent, else <<snapshot>>
    meta_lock,   \* "free" or the thread that holds the lock
    storage,     \* per chunk store address, chunk id -> bytes on disk
    now,         \* time.time()
    nextId,      \* the next fresh chunk id
    up,          \* the upload request threads
    dl,          \* the download request threads
    hb,          \* the heartbeat listener thread
    pp,          \* the periodic persister thread
    ix,          \* the status-page request thread
    cs,          \* the connection handler threads of the chunk stores
    net,         \* the heartbeat port's queue and the heartbeat senders
    log          \* history: what the callers and the network saw

vars ==
    <<meta, disk, meta_lock, storage, now, nextId, up, dl, hb, pp, ix, cs, net, log>>

\* ----------------------------------------------------------------- helpers
Min(a, b) == IF a < b THEN a ELSE b
\* Python's d.get(k, default)
Get(d, k, default) == IF k \in DOMAIN d THEN d[k] ELSE default
\* Python's d[k] = v
Put(d, k, v) == [x \in DOMAIN d \cup {k} |-> IF x = k THEN v ELSE d[x]]
\* Python's data[i:j]
Slice(data, i, j) == SubSeq(data, i + 1, Min(j, Len(data)))

EmptyMap == [x \in {} |-> 0]

\* mutant: a node id without a final digit gets the digit 0
LastDigitDefault(node_id) ==
    CASE node_id = "1" -> 1
      [] OTHER -> 0

\* int(node_id[-1]): the last character as a digit; -1 stands for ValueError.
LastDigit(node_id) ==
    CASE node_id = "0" -> 0
      [] node_id = "1" -> 1
      [] node_id = "10" -> 0
      [] OTHER -> -1

\* ------------------------------------------------------------- the catalog
DefaultMeta ==
    [ files |-> EmptyMap,
      chunks |-> EmptyMap,
      datanodes |->
        [ n \in {"0", "1"} |->
            [ last_hb |-> 0, host |-> "localhost",
              tcp_port |-> DND_TCP_BASE + LastDigit(n) ] ] ]

\* mutant: the file gets the catalog as it was before the update at hand
WriteSnapshotStale(m) == << meta >>

\* METADATA_FILE.write_text(json.dumps(meta, indent=2)): the whole catalog
\* replaces the file's contents.
WriteSnapshot(m) == << m >>

\* if METADATA_FILE.exists(): json.loads(...) else the default table
LoadMeta(file) == IF file # <<>> THEN file[1] ELSE DefaultMeta

\* ----------------------------------------------------------- chunk store
\* handle_client_connection: the directory after the request and the reply
\* sent (<<>> when the connection is closed without a reply).
handle_client_connection(dir, hdr, payload) ==
    LET cmd == Get(hdr, "cmd", "")
    IN  IF cmd = "" THEN [dir |-> dir, resp |-> <<>>]
        ELSE IF cmd = "STORE" THEN
            IF "chunk_id" \notin DOMAIN hdr THEN [dir |-> dir, resp |-> <<>>]
            ELSE [ dir |-> Put(dir, hdr["chunk_id"], payload),
                   resp |-> << [status |-> "OK", payload |-> <<>>] >> ]
        ELSE IF cmd = "RETRIEVE" THEN
            IF "chunk_id" \notin DOMAIN hdr THEN [dir |-> dir, resp |-> <<>>]
            ELSE IF hdr["chunk_id"] \in DOMAIN dir
                 THEN [ dir |-> dir,
                        resp |-> << [status |-> "OK",
                                     payload |-> dir[hdr["chunk_id"]]] >> ]
                 ELSE [ dir |-> dir,
                        resp |-> << [status |-> "NOT_FOUND", payload |-> <<>>] >> ]
        ELSE [dir |-> dir, resp |-> <<>>]

\* One framed exchange of the namenode with the store at the descriptor dn
\* under a network fault: the storage afterwards and what the caller got:
\* <<>> for an exception, else <<reply>>.
Exchange(dn, hdr, payload, fault) ==
    LET addr == <<Machine(dn.host), dn.tcp_port>>
    IN  IF addr \notin StoreAddrs \/ fault \in {"refused", "timeout"}
        THEN [storage |-> storage, got |-> <<>>]
        ELSE LET r == handle_client_connection(storage[addr], hdr, payload)
             IN  [ storage |-> [storage EXCEPT ![addr] = r.dir],
                   got |-> IF fault = "disconnect" THEN <<>> ELSE r.resp ]

\* mutant: an exception counts as success
store_chunk_to_node_lenient(chunk_id, chunk_bytes, node_id, filename, fault) ==
    IF node_id \notin DOMAIN meta.datanodes
    THEN [ret |-> FALSE, status |-> "no_node", storage |-> storage]
    ELSE LET x == Exchange(meta.datanodes[node_id],
                           [cmd |-> "STORE", chunk_id |-> chunk_id,
                            filename |-> filename],
                           chunk_bytes, fault)
         IN  [ ret |-> x.got = <<>> \/ x.got[1].status = "OK",
               status |-> IF x.got = <<>> THEN "error" ELSE x.got[1].status,
               storage |-> x.storage ]

\* store_chunk_to_node: the returned boolean, the storage afterwards, and
\* what the call saw: the reply's status, "error" for an exception.
store_chunk_to_node(chunk_id, chunk_bytes, node_id, filename, fault) ==
    IF node_id \notin DOMAIN meta.datanodes
    THEN [ret |-> FALSE, status |-> "no_node", storage |-> storage]
    ELSE LET x == Exchange(meta.datanodes[node_id],
                           [cmd |-> "STORE", chunk_id |-> chunk_id,
                            filename |-> filename],
                           chunk_bytes, fault)
         IN  [ ret |-> x.got # <<>> /\ x.got[1].status = "OK",
               status |-> IF x.got = <<>> THEN "error" ELSE x.got[1].status,
               storage |-> x.storage ]

\* retrieve_chunk_from_node: <<>> stands for None, else <<payload>>; and what
\* the call saw: the reply's status, "error" for an exception.
retrieve_chunk_from_node(chunk_id, node_id, fault) ==
    IF node_id \notin DOMAIN meta.datanodes
    THEN [ret |-> <<>>, status |-> "no_node"]
    ELSE LET x == Exchange(meta.datanodes[node_id],
                           [cmd |-> "RETRIEVE", chunk_id |-> chunk_id],
                           <<>>, fault)
         IN  IF x.got # <<>> /\ x.got[1].status = "OK"
             THEN [ret |-> << x.got[1].payload >>, status |-> "OK"]
             ELSE [ret |-> <<>>,
                   status |-> IF x.got = <<>> THEN "error" ELSE x.got[1].status]

\* ------------------------------------------------------------ initial state
IdleUpload ==
    [ pc |-> "idle", fname |-> "", data |-> <<>>, idx |-> 0, chunks |-> <<>>,
      chunk_id |-> 0, successes |-> <<>>, n |-> 1 ]

\* had_entry, expect and tried are history: whether the catalog had a File
\* Entry for the filename, the bytes of the upload that wrote it, and per
\* chunk the RETRIEVE attempts made, each <<node, what the call saw>>.
IdleDownload ==
    [ pc |-> "idle", filename |-> "", file_chunks |-> <<>>, k |-> 1,
      node_list |-> <<>>, j |-> 1, assembled |-> <<>>,
      status |-> 0, text |-> "", cid |-> 0, body |-> <<>>,
      had_entry |-> FALSE, expect |-> <<>>, tried |-> <<>> ]

\* seen, last and before are history: the message of the connection at hand
\* or of the one dropped last, and how the last two connections ended.
IdleListener ==
    [ pc |-> "accept", node_id |-> "", host |-> "", ts |-> 0,
      seen |-> [kind |-> "", obj |-> EmptyMap], last |-> "", before |-> "" ]

IdleIndex == [pc |-> "idle", now |-> 0, nodes |-> EmptyMap]

\* the datanodes that run on the namenode's machine
Senders == { d \in DATANODES : Machine(d.host) = "nn" }

\* The heartbeat port: whether it can be reached, the connections queued for
\* accept, each <<message, source host, sender>>, the position of every
\* datanode's send_heartbeat loop, and the connections other clients made.
\* failed is history: an attempt of the loop has failed.
IdleNet ==
    [ reachable |-> TRUE, backlog |-> <<>>,
      snd |-> [i \in {d.id : d \in Senders} |-> [pc |-> "connect", failed |-> FALSE]],
      rogue |-> 0 ]

\* A handler thread of a chunk store: the address served, what the connection
\* delivered, the chunk id of the request, the response built.  got, wrote,
\* fault and prev are history: what the client received (<<>>: nothing),
\* whether the handler created or changed a chunk file, the I/O failure met,
\* and how the connection served before this one ended.
IdleConn ==
    [ pc |-> "idle", addr |-> <<"", 0>>,
      req |-> [kind |-> "", hdr |-> EmptyMap, payload |-> <<>>], chunk_id |-> 0,
      resp |-> <<>>, got |-> <<>>, wrote |-> FALSE, fault |-> "none",
      prev |-> "" ]

EmptyLog ==
    [ sent |-> EmptyMap,      \* chunk id -> the chunk_bytes of its STOREs
      stored |-> EmptyMap,    \* <<chunk id, node>> -> what its STORE attempt saw
      targets |-> EmptyMap,   \* chunk id -> the nodes of its STORE attempts, in order
      uploaded |-> EmptyMap,  \* filename -> the bytes of the upload in its File Entry
      acked |-> {},           \* the uploads that were answered with success
      stores |-> EmptyMap,    \* <<store, chunk id>> -> the STOREs that completed
      restarts |-> 0 ]        \* restarts of the namenode process so far

Init ==
    /\ meta = DefaultMeta
    /\ disk = <<>>
    /\ meta_lock = "free"
    /\ storage = [a \in StoreAddrs |-> EmptyMap]
    /\ now = Epoch
    /\ nextId = 1
    /\ up = [u \in Uploaders |-> IdleUpload]
    /\ dl = [d \in Downloaders |-> IdleDownload]
    /\ hb = IdleListener
    /\ pp = "sleep"
    /\ ix = IdleIndex
    /\ cs = [c \in Conns |-> IdleConn]
    /\ net = IdleNet
    /\ log = EmptyLog

\* ------------------------------------------------------------------ upload
\* chunk ids the uploads in progress will still draw
Reserved ==
    LET need(u) == IF up[u].pc \in {"idle", "done"} THEN 0
                   ELSE NumChunks(Len(up[u].data)) - Len(up[u].chunks)
        sum[S \in SUBSET DOMAIN up] ==
            IF S = {} THEN 0
            ELSE LET u == CHOOSE x \in S : TRUE IN need(u) + sum[S \ {u}]
    IN  sum[DOMAIN up]

\* mutant: the loop is left when every STORE of the previous chunk failed
LoopHeadAbort(r, id) ==
    IF r.idx < Len(r.data) /\ ~(r.idx > 0 /\ r.successes = <<>>)
    THEN [r EXCEPT !.chunk_id = id, !.chunks = Append(@, id),
                   !.successes = <<>>, !.n = 1, !.pc = "store"]
    ELSE [r EXCEPT !.pc = "lock_file"]

\* The head of `while idx < len(data)`: the next chunk is cut and gets a
\* fresh id, or the loop is left.
LoopHead(r, id) ==
    IF r.idx < Len(r.data)
    THEN [r EXCEPT !.chunk_id = id, !.chunks = Append(@, id),
                   !.successes = <<>>, !.n = 1, !.pc = "store"]
    ELSE [r EXCEPT !.pc = "lock_file"]

\* mutant: the slice is one byte short
chunk_bytes_short(r) == Slice(r.data, r.idx, r.idx + CHUNK_SIZE - 1)

\* chunk_bytes = data[idx: idx + CHUNK_SIZE]
chunk_bytes(r) == Slice(r.data, r.idx, r.idx + CHUNK_SIZE)

\* POST /upload accepted: fname, data read; the loop is entered.
UploadStart(u, fname, data) ==
    /\ up[u].pc \in {"idle", "done"}
    /\ (nextId - 1) + Reserved + NumChunks(Len(data)) <= MaxIds
    /\ Cardinality(log.acked) < MaxUploads
    /\ LET r0 == [IdleUpload EXCEPT !.fname = fname, !.data = data]
           r1 == LoopHead(r0, nextId)
       IN  /\ up' = [up EXCEPT ![u] = r1]
           /\ nextId' = IF r1.pc = "store" THEN nextId + 1 ELSE nextId
           /\ log' = IF r1.pc = "store"
                     THEN [log EXCEPT !.sent = Put(@, nextId, chunk_bytes(r1))]
                     ELSE log
    /\ UNCHANGED <<cs, net, meta, disk, meta_lock, storage, now, dl, hb, pp, ix>>

\* mutant: a node that a heartbeat registered becomes a replica target
ReplicasRegistered ==
    IF "10" \in DOMAIN meta.datanodes THEN <<"0", "1", "10">> ELSE <<"0", "1">>

\* the tuple of `for node_id in ("0", "1")`
REPLICAS == <<"0", "1">>

\* One turn of `for node_id in ("0", "1")`: the STORE attempt on one node.
UploadStore(u, fault) ==
    LET r == up[u]
        node_id == REPLICAS[r.n]
        res == store_chunk_to_node(r.chunk_id, chunk_bytes(r), node_id, r.fname, fault)
    IN  /\ r.pc = "store"
        /\ storage' = res.storage
        /\ up' = [up EXCEPT ![u] =
                    [r EXCEPT !.successes = IF res.ret THEN Append(@, node_id) ELSE @,
                              !.n = @ + 1,
                              !.pc = IF r.n = Len(REPLICAS) THEN "lock_chunk" ELSE "store"]]
        /\ log' = [log EXCEPT
                     !.stored = Put(@, <<r.chunk_id, node_id>>, res.status),
                     !.targets = Put(@, r.chunk_id,
                                     Append(Get(@, r.chunk_id, <<>>), node_id))]
        /\ UNCHANGED <<cs, net, meta, disk, meta_lock, now, nextId, dl, hb, pp, ix>>

\* `with meta_lock:` entered before meta["chunks"][chunk_id] = successes
UploadLockChunk(u) ==
    /\ up[u].pc = "lock_chunk"
    /\ meta_lock = "free"
    /\ meta_lock' = u
    /\ up' = [up EXCEPT ![u].pc = "put_chunk"]
    /\ UNCHANGED <<cs, net, meta, disk, storage, now, nextId, dl, hb, pp, ix, log>>

\* mutant: a chunk without any successful STORE gets no placement record
UploadPutChunkIfAny(u) ==
    LET r == up[u]
        r1 == LoopHead([r EXCEPT !.idx = @ + CHUNK_SIZE], nextId)
    IN  /\ r.pc = "put_chunk"
        /\ meta_lock = u
        /\ meta' = IF r.successes = <<>> THEN meta
                   ELSE [meta EXCEPT !.chunks = Put(@, r.chunk_id, r.successes)]
        /\ meta_lock' = "free"
        /\ up' = [up EXCEPT ![u] = r1]
        /\ nextId' = IF r1.pc = "store" THEN nextId + 1 ELSE nextId
        /\ log' = IF r1.pc = "store"
                  THEN [log EXCEPT !.sent = Put(@, nextId, chunk_bytes(r1))]
                  ELSE log
        /\ UNCHANGED <<cs, net, disk, storage, now, dl, hb, pp, ix>>

\* meta["chunks"][chunk_id] = successes; the lock is left; idx += CHUNK_SIZE;
\* back to the head of the loop.
UploadPutChunk(u) ==
    LET r == up[u]
        r1 == LoopHead([r EXCEPT !.idx = @ + CHUNK_SIZE], nextId)
    IN  /\ r.pc = "put_chunk"
        /\ meta_lock = u
        /\ meta' = [meta EXCEPT !.chunks = Put(@, r.chunk_id, r.successes)]
        /\ meta_lock' = "free"
        /\ up' = [up EXCEPT ![u] = r1]
        /\ nextId' = IF r1.pc = "store" THEN nextId + 1 ELSE nextId
        /\ log' = IF r1.pc = "store"
                  THEN [log EXCEPT !.sent = Put(@, nextId, chunk_bytes(r1))]
                  ELSE log
        /\ UNCHANGED <<cs, net, disk, storage, now, dl, hb, pp, ix>>

\* `with meta_lock:` entered before meta["files"][fname] = chunks
UploadLockFile(u) ==
    /\ up[u].pc = "lock_file"
    /\ meta_lock = "free"
    /\ meta_lock' = u
    /\ up' = [up EXCEPT ![u].pc = "put_file"]
    /\ UNCHANGED <<cs, net, meta, disk, storage, now, nextId, dl, hb, pp, ix, log>>

\* mutant: the chunk ids are added to the File Entry the filename has
UploadPutFileExtend(u) ==
    LET r == up[u]
        m == [meta EXCEPT !.files =
                Put(@, r.fname, Get(meta.files, r.fname, <<>>) \o r.chunks)]
    IN  /\ r.pc = "put_file"
        /\ meta_lock = u
        /\ meta' = m
        /\ disk' = WriteSnapshot(m)
        /\ meta_lock' = "free"
        /\ up' = [up EXCEPT ![u].pc = "done"]
        /\ log' = [log EXCEPT
                     !.uploaded = Put(@, r.fname, r.data),
                     !.acked = @ \cup {[fname |-> r.fname, data |-> r.data,
                                        chunks |-> r.chunks]}]
        /\ UNCHANGED <<cs, net, storage, now, nextId, dl, hb, pp, ix>>

\* meta["files"][fname] = chunks; the snapshot is written; the lock is left;
\* the request is answered with the success flash.
UploadPutFile(u) ==
    LET r == up[u]
        m == [meta EXCEPT !.files = Put(@, r.fname, r.chunks)]
    IN  /\ r.pc = "put_file"
        /\ meta_lock = u
        /\ meta' = m
        /\ disk' = WriteSnapshot(m)
        /\ meta_lock' = "free"
        /\ up' = [up EXCEPT ![u].pc = "done"]
        /\ log' = [log EXCEPT
                     !.uploaded = Put(@, r.fname, r.data),
                     !.acked = @ \cup {[fname |-> r.fname, data |-> r.data,
                                        chunks |-> r.chunks]}]
        /\ UNCHANGED <<cs, net, storage, now, nextId, dl, hb, pp, ix>>

\* ---------------------------------------------------------------- download
\* GET /download/<filename> accepted; `with meta_lock:` entered.
DownloadStart(d, filename) ==
    /\ dl[d].pc \in {"idle", "done"}
    /\ meta_lock = "free"
    /\ meta_lock' = d
    /\ dl' = [dl EXCEPT ![d] = [IdleDownload EXCEPT !.pc = "get_file",
                                                    !.filename = filename]]
    /\ UNCHANGED <<cs, net, meta, disk, storage, now, nextId, up, hb, pp, ix, log>>

\* file_chunks = meta["files"].get(filename); `if not file_chunks` answers
\* 404 for None and for the empty list alike; the lock is left either way.
DownloadGetFile(d) ==
    LET r == dl[d]
        found == r.filename \in DOMAIN meta.files
        file_chunks == Get(meta.files, r.filename, <<>>)
    IN  /\ r.pc = "get_file"
        /\ meta_lock = d
        /\ meta_lock' = "free"
        /\ dl' = [dl EXCEPT ![d] =
                    IF ~found \/ file_chunks = <<>>
                    THEN [r EXCEPT !.pc = "done", !.status = 404,
                                   !.text = "file not found",
                                   !.had_entry = found,
                                   !.expect = Get(log.uploaded, r.filename, <<>>)]
                    ELSE [r EXCEPT !.pc = "lookup", !.file_chunks = file_chunks,
                                   !.k = 1, !.had_entry = found,
                                   !.expect = Get(log.uploaded, r.filename, <<>>)]]
        /\ UNCHANGED <<cs, net, meta, disk, storage, now, nextId, up, hb, pp, ix, log>>

\* mutant: the chunks retrieved so far are sent with the error
MissingChunkPartial(r, cid) ==
    [r EXCEPT !.pc = "done", !.status = 500, !.text = "missing chunk",
              !.cid = cid, !.body = r.assembled]

\* `if not payload: return f"missing chunk {cid}", 500`
MissingChunk(r, cid) ==
    [r EXCEPT !.pc = "done", !.status = 500, !.text = "missing chunk",
              !.cid = cid, !.body = <<>>]

\* mutant: the loop runs over the File Entry as the catalog has it now
ChunkAtLive(r) ==
    LET live == Get(meta.files, r.filename, <<>>)
    IN  IF r.k <= Len(live) THEN live[r.k] ELSE r.file_chunks[r.k]

\* `for cid in file_chunks`: the chunk id of the k-th turn, from the list
\* the download took out of the catalog under the lock
ChunkAt(r) == r.file_chunks[r.k]

\* node_list = meta["chunks"].get(cid, []) for the chunk at hand; with an
\* empty list the for loop has no turn and the chunk is missing.
DownloadLookup(d) ==
    LET r == dl[d]
        cid == ChunkAt(r)
        node_list == Get(meta.chunks, cid, <<>>)
        r1 == [r EXCEPT !.node_list = node_list, !.j = 1,
                        !.tried = Append(@, <<>>)]
    IN  /\ r.pc = "lookup"
        /\ dl' = [dl EXCEPT ![d] =
                    IF node_list = <<>> THEN MissingChunk(r1, cid)
                    ELSE [r1 EXCEPT !.pc = "retrieve"]]
        /\ UNCHANGED <<cs, net, meta, disk, meta_lock, storage, now, nextId, up, hb, pp, ix, log>>

\* mutant: the replicas are tried from the end of the list
NextReplicaReversed(node_list, j) == node_list[Len(node_list) + 1 - j]

\* `for n in node_list`: the node of the j-th turn
NextReplica(node_list, j) == node_list[j]

\* One turn of `for n in node_list`: RETRIEVE from one replica; `if payload`
\* breaks the loop and the payload is appended; when the list ends without
\* a payload the download answers 500; after the last chunk the assembled
\* bytes are sent.
DownloadRetrieve(d, fault) ==
    LET r == dl[d]
        cid == ChunkAt(r)
        n == NextReplica(r.node_list, r.j)
        res == retrieve_chunk_from_node(cid, n, fault)
        payload == IF res.ret = <<>> THEN <<>> ELSE res.ret[1]
        r1 == [r EXCEPT !.tried[r.k] = Append(@, <<n, res.status>>)]
        assembled == r.assembled \o payload
    IN  /\ r.pc = "retrieve"
        /\ dl' = [dl EXCEPT ![d] =
                    IF payload # <<>>
                    THEN IF r.k = Len(r.file_chunks)
                         THEN [r1 EXCEPT !.pc = "done", !.status = 200,
                                         !.text = "", !.assembled = assembled,
                                         !.body = assembled]
                         ELSE [r1 EXCEPT !.pc = "lookup", !.k = @ + 1,
                                         !.assembled = assembled]
                    ELSE IF r.j = Len(r.node_list)
                         THEN MissingChunk(r1, cid)
                         ELSE [r1 EXCEPT !.j = @ + 1]]
        /\ UNCHANGED <<cs, net, meta, disk, meta_lock, storage, now, nextId, up, hb, pp, ix, log>>

\* --------------------------------------------------------------- heartbeat
\* What a connection to the heartbeat port delivers to conn.recv(4096).
JsonMsg(obj) == [kind |-> "json", obj |-> obj]
EmptyMsg == [kind |-> "empty", obj |-> EmptyMap]
GarbageMsg == [kind |-> "garbage", obj |-> EmptyMap]
\* the heartbeats the deployment's datanodes send, with their source address
GoodHeartbeats == { <<JsonMsg([node_id |-> d.id]), d.host>> : d \in DATANODES }
BadHeartbeats ==
    { <<m, "127.0.0.1">> : m \in {EmptyMsg, GarbageMsg, JsonMsg(EmptyMap),
                                  JsonMsg([node_id |-> "x"])} }

\* recv, json.loads, node_id, host, tcp_port, ts: everything between accept
\* and `with meta_lock:`.  No data, or any exception, ends the turn of the
\* loop with nothing changed.
Received(msg, host) ==
    LET node_id == Get(msg.obj, "node_id", "None")
    IN  IF msg.kind = "json" /\ LastDigit(node_id) >= 0
        THEN [hb EXCEPT !.pc = "lock", !.node_id = node_id,
                        !.host = host, !.ts = now, !.seen = msg]
        ELSE [IdleListener EXCEPT !.seen = msg, !.last = "dropped",
                                  !.before = hb.last]

\* One turn of the listener's loop up to the lock, on a connection that
\* delivers msg from host.
HeartbeatAccept(msg, host) ==
    /\ hb.pc = "accept"
    /\ hb' = Received(msg, host)
    /\ UNCHANGED <<cs, net, meta, disk, meta_lock, storage, now, nextId, up, dl, pp, ix, log>>

HeartbeatLock ==
    /\ hb.pc = "lock"
    /\ meta_lock = "free"
    /\ meta_lock' = "hb"
    /\ hb' = [hb EXCEPT !.pc = "update"]
    /\ UNCHANGED <<cs, net, meta, disk, storage, now, nextId, up, dl, pp, ix, log>>

\* setdefault, update of the node descriptor, the snapshot; the lock is left.
HeartbeatUpdate ==
    LET m == [meta EXCEPT !.datanodes =
                 Put(@, hb.node_id,
                     [ last_hb |-> hb.ts, host |-> hb.host,
                       tcp_port |-> DND_TCP_BASE + LastDigit(hb.node_id) ])]
    IN  /\ hb.pc = "update"
        /\ meta_lock = "hb"
        /\ meta' = m
        /\ disk' = WriteSnapshot(m)
        /\ meta_lock' = "free"
        /\ hb' = [IdleListener EXCEPT !.last = "recorded", !.before = hb.last]
        /\ UNCHANGED <<cs, net, storage, now, nextId, up, dl, pp, ix, log>>

\* The same turn on the connection at the head of the port's queue.
HeartbeatAcceptQueued ==
    /\ hb.pc = "accept"
    /\ net.backlog # <<>>
    /\ hb' = Received(Head(net.backlog)[1], Head(net.backlog)[2])
    /\ net' = [net EXCEPT !.backlog = Tail(@)]
    /\ UNCHANGED <<cs, meta, disk, meta_lock, storage, now, nextId, up, dl, pp, ix, log>>

\* ------------------------------------------------------- heartbeat senders
\* mutant: the loop ends with the first failed attempt
AfterFailureStop == "stopped"

\* `except Exception` in the loop of send_heartbeat: the failure is printed
\* and the loop goes on to time.sleep
AfterFailure == "sleep"

\* One attempt of datanode d: create_connection, sendall, close; it fails
\* when the port cannot be reached or its queue is full.
SenderConnect(d) ==
    LET ok == net.reachable /\ Len(net.backlog) < BACKLOG
    IN  /\ net.snd[d.id].pc = "connect"
        /\ net' = IF ok
                  THEN [net EXCEPT
                          !.backlog = Append(@, <<JsonMsg([node_id |-> d.id]),
                                                  d.host, d.id>>),
                          !.snd[d.id].pc = "sleep"]
                  ELSE [net EXCEPT !.snd[d.id].pc = AfterFailure,
                                   !.snd[d.id].failed = TRUE]
        /\ UNCHANGED <<cs, meta, disk, meta_lock, storage, now, nextId, up, dl, hb,
                       pp, ix, log>>

\* time.sleep(HEARTBEAT_INTERVAL) is over; the listener takes a connection
\* off the queue in far less than the interval.
SenderWake(d) ==
    /\ net.snd[d.id].pc = "sleep"
    /\ \A i \in 1..Len(net.backlog) : net.backlog[i][3] # d.id
    /\ net' = [net EXCEPT !.snd[d.id].pc = "connect"]
    /\ UNCHANGED <<cs, meta, disk, meta_lock, storage, now, nextId, up, dl, hb,
                   pp, ix, log>>

\* Another client connects to the heartbeat port and sends what is no
\* heartbeat, or nothing.
RogueConnect(msg) ==
    /\ net.rogue < MaxRogue
    /\ net.reachable /\ Len(net.backlog) < BACKLOG
    /\ net' = [net EXCEPT !.backlog = Append(@, <<msg, "127.0.0.1", "rogue">>),
                          !.rogue = @ + 1]
    /\ UNCHANGED <<cs, meta, disk, meta_lock, storage, now, nextId, up, dl, hb,
                   pp, ix, log>>

\* The heartbeat port becomes unreachable for the datanodes, or reachable.
NetFlip ==
    /\ net' = [net EXCEPT !.reachable = ~@]
    /\ UNCHANGED <<cs, meta, disk, meta_lock, storage, now, nextId, up, dl, hb,
                   pp, ix, log>>

\* -------------------------------------------------------- periodic persist
PersistLock ==
    /\ pp = "sleep"
    /\ meta_lock = "free"
    /\ meta_lock' = "pp"
    /\ pp' = "write"
    /\ UNCHANGED <<cs, net, meta, disk, storage, now, nextId, up, dl, hb, ix, log>>

PersistWrite ==
    /\ pp = "write"
    /\ meta_lock = "pp"
    /\ disk' = WriteSnapshot(meta)
    /\ meta_lock' = "free"
    /\ pp' = "sleep"
    /\ UNCHANGED <<cs, net, meta, storage, now, nextId, up, dl, hb, ix, log>>

\* ------------------------------------------------------------- status page
\* mutant: a node is still ALIVE when the elapsed time equals the timeout
index_nodes_inclusive(m, t) ==
    [ nid \in DOMAIN m.datanodes |->
        LET info == m.datanodes[nid]
            last == info.last_hb
        IN  [ status |-> IF t - last <= HEARTBEAT_TIMEOUT THEN "ALIVE" ELSE "DEAD",
              last_heartbeat |-> IF last > 0 THEN [text |-> "time", at |-> last]
                                 ELSE [text |-> "never", at |-> 0],
              tcp_port |-> info.tcp_port,
              host |-> info.host ] ]

\* The nodes dictionary index() builds from the catalog at time t.
index_nodes(m, t) ==
    [ nid \in DOMAIN m.datanodes |->
        LET info == m.datanodes[nid]
            last == info.last_hb
        IN  [ status |-> IF t - last < HEARTBEAT_TIMEOUT THEN "ALIVE" ELSE "DEAD",
              last_heartbeat |-> IF last > 0 THEN [text |-> "time", at |-> last]
                                 ELSE [text |-> "never", at |-> 0],
              tcp_port |-> info.tcp_port,
              host |-> info.host ] ]

IndexLock ==
    /\ ix.pc = "idle"
    /\ meta_lock = "free"
    /\ meta_lock' = "ix"
    /\ ix' = [ix EXCEPT !.pc = "nodes"]
    /\ UNCHANGED <<cs, net, meta, disk, storage, now, nextId, up, dl, hb, pp, log>>

IndexNodes ==
    /\ ix.pc = "nodes"
    /\ meta_lock = "ix"
    /\ meta_lock' = "free"
    /\ ix' = [pc |-> "render", now |-> now, nodes |-> index_nodes(meta, now)]
    /\ UNCHANGED <<cs, net, meta, disk, storage, now, nextId, up, dl, hb, pp, log>>

\* render_template(..., files=meta["files"], chunks=meta["chunks"])
IndexRender ==
    /\ ix.pc = "render"
    /\ ix' = IdleIndex
    /\ UNCHANGED <<cs, net, meta, disk, meta_lock, storage, now, nextId, up, dl, hb, pp, log>>

\* ------------------------------------------------------- clock and restart
Tick ==
    /\ now < Epoch + MaxTime
    /\ now' = now + 1
    /\ UNCHANGED <<cs, net, meta, disk, meta_lock, storage, nextId, up, dl, hb, pp, ix, log>>

\* The namenode process is stopped, whatever its threads are doing, and
\* started again: the catalog is read from METADATA_FILE.
Restart ==
    /\ log.restarts < MaxRestarts
    /\ log' = [log EXCEPT !.restarts = @ + 1]
    /\ meta' = LoadMeta(disk)
    /\ meta_lock' = "free"
    /\ up' = [u \in DOMAIN up |-> IdleUpload]
    /\ dl' = [d \in DOMAIN dl |-> IdleDownload]
    /\ hb' = IdleListener
    /\ pp' = "sleep"
    /\ ix' = IdleIndex
    /\ UNCHANGED <<cs, net, disk, storage, now, nextId>>

\* ------------------------------------------- chunk store, thread by thread
\* What a client's connection delivers to the four recv_n calls: a frame
\* that decodes, bytes that do not decode, or less than the declared bytes
\* before the connection closes.
Frame(hdr, payload) == [kind |-> "frame", hdr |-> hdr, payload |-> payload]
GarbageFrame == [kind |-> "garbage", hdr |-> EmptyMap, payload |-> <<>>]
ShortFrame == [kind |-> "short", hdr |-> EmptyMap, payload |-> <<>>]

\* mutant: a STORE header without chunk_id is served under a default id
DispatchDefaultId(req) ==
    LET cmd == Get(req.hdr, "cmd", "")
        id == Get(req.hdr, "chunk_id", 0)
    IN  IF req.kind # "frame" \/ cmd = "" THEN [pc |-> "closed", chunk_id |-> 0]
        ELSE IF cmd = "STORE" THEN [pc |-> "open", chunk_id |-> id]
        ELSE IF cmd = "RETRIEVE" /\ "chunk_id" \in DOMAIN req.hdr
             THEN [pc |-> "exists", chunk_id |-> id]
        ELSE [pc |-> "closed", chunk_id |-> 0]

\* The handler up to the branch it takes: an exception of recv_n or
\* json.loads, `if not cmd`, KeyError of hdr["chunk_id"] and the final else
\* all end the connection; STORE goes on to open the file, RETRIEVE to
\* os.path.exists.
Dispatch(req) ==
    LET cmd == Get(req.hdr, "cmd", "")
    IN  IF req.kind # "frame" \/ cmd = "" THEN [pc |-> "closed", chunk_id |-> 0]
        ELSE IF cmd \in {"STORE", "RETRIEVE"} /\ "chunk_id" \in DOMAIN req.hdr
             THEN [ pc |-> IF cmd = "STORE" THEN "open" ELSE "exists",
                    chunk_id |-> req.hdr["chunk_id"] ]
        ELSE [pc |-> "closed", chunk_id |-> 0]

\* f.write(payload) on a file opened at offset 0: the payload replaces the
\* first bytes, bytes written behind them since the open stay.
WriteAt0(file, payload) == payload \o SubSeq(file, Len(payload) + 1, Len(file))

\* mutant: the blob is left out of the response
OkReplyEmpty(data) == << [status |-> "OK", payload |-> <<>>] >>

\* {"status": "OK"} framed with the payload
OkReply(data) == << [status |-> "OK", payload |-> data] >>
\* {"status": "NOT_FOUND"} framed with an empty payload
NotFoundReply == << [status |-> "NOT_FOUND", payload |-> <<>>] >>

\* s.accept() and the handler thread's start, up to its branch.
StoreAccept(c, a, req) ==
    LET d == Dispatch(req)
    IN  /\ cs[c].pc \in {"idle", "closed"}
        /\ cs' = [cs EXCEPT ![c] =
                    [ IdleConn EXCEPT !.pc = d.pc, !.addr = a, !.req = req,
                                      !.chunk_id = d.chunk_id,
                                      !.fault = IF req.kind = "short" THEN "recv"
                                                ELSE "none",
                                      !.prev = IF cs[c].pc = "idle" THEN ""
                                               ELSE IF cs[c].got = <<>>
                                               THEN "dropped" ELSE "answered" ]]
        /\ UNCHANGED <<net, meta, disk, meta_lock, storage, now, nextId, up, dl, hb, pp,
                       ix, log>>

\* open(abs_path, "wb"): the file is created, or cut to length 0.
StoreOpen(c) ==
    LET r == cs[c]
    IN  /\ r.pc = "open"
        /\ storage' = [storage EXCEPT ![r.addr] = Put(@, r.chunk_id, <<>>)]
        /\ cs' = [cs EXCEPT ![c].pc = "write", ![c].wrote = TRUE]
        /\ UNCHANGED <<net, meta, disk, meta_lock, now, nextId, up, dl, hb, pp, ix, log>>

\* f.write(payload) and the end of the `with` block; the response is built.
StoreWrite(c) ==
    LET r == cs[c]
        file == storage[r.addr][r.chunk_id]
    IN  /\ r.pc = "write"
        /\ storage' = [storage EXCEPT ![r.addr] =
                          Put(@, r.chunk_id, WriteAt0(file, r.req.payload))]
        /\ cs' = [cs EXCEPT ![c].pc = "respond", ![c].resp = OkReply(<<>>)]
        /\ UNCHANGED <<net, meta, disk, meta_lock, now, nextId, up, dl, hb, pp, ix, log>>

\* os.path.exists(abs_path); without the file the NOT_FOUND response is built.
ChunkExists(c) ==
    LET r == cs[c]
    IN  /\ r.pc = "exists"
        /\ cs' = IF r.chunk_id \in DOMAIN storage[r.addr]
                 THEN [cs EXCEPT ![c].pc = "read"]
                 ELSE [cs EXCEPT ![c].pc = "respond", ![c].resp = NotFoundReply]
        /\ UNCHANGED <<net, meta, disk, meta_lock, storage, now, nextId, up, dl, hb, pp,
                       ix, log>>

\* data = f.read(); the OK response is built.
ChunkRead(c) ==
    LET r == cs[c]
    IN  /\ r.pc = "read"
        /\ cs' = [cs EXCEPT ![c].pc = "respond",
                            ![c].resp = OkReply(storage[r.addr][r.chunk_id])]
        /\ UNCHANGED <<net, meta, disk, meta_lock, storage, now, nextId, up, dl, hb, pp,
                       ix, log>>

\* conn.sendall(...) and conn.close(): the client gets the response unless
\* the connection has broken; a STORE is complete.
StoreRespond(c, fault) ==
    LET r == cs[c]
        key == <<r.addr, r.chunk_id>>
        n == IF key \in DOMAIN log.stores THEN log.stores[key].n ELSE 0
    IN  /\ r.pc = "respond"
        /\ cs' = [cs EXCEPT ![c].pc = "closed",
                            ![c].got = IF fault = "none" THEN r.resp ELSE <<>>,
                            ![c].fault = IF fault = "none" THEN "none" ELSE "send"]
        /\ log' = IF r.req.hdr["cmd"] = "STORE"
                  THEN [log EXCEPT !.stores =
                          Put(@, key, [ n |-> Min(n + 1, 2),
                                        payload |-> r.req.payload,
                                        answer |-> r.resp[1].status ])]
                  ELSE log
        /\ UNCHANGED <<net, meta, disk, meta_lock, storage, now, nextId, up, dl, hb, pp, ix>>

\* ---------------------------------------------------------- specifications
UploadStep ==
    \/ \E u \in Uploaders, fault \in Faults : UploadStore(u, fault)
    \/ \E u \in Uploaders : UploadLockChunk(u)
    \/ \E u \in Uploaders : UploadPutChunk(u)
    \/ \E u \in Uploaders : UploadLockFile(u)
    \/ \E u \in Uploaders : UploadPutFile(u)

DownloadStep ==
    \/ \E d \in Downloaders : DownloadGetFile(d)
    \/ \E d \in Downloaders : DownloadLookup(d)
    \/ \E d \in Downloaders, fault \in Faults : DownloadRetrieve(d, fault)

\* The data path: upload and download requests, each served by a thread of
\* its own, against chunk stores reached through a faulty network.
Next ==
    \/ \E u \in Uploaders, f \in UploadNames, data \in Payloads :
          UploadStart(u, f, data)
    \/ UploadStep
    \/ \E d \in Downloaders, f \in FileNames : DownloadStart(d, f)
    \/ DownloadStep

Spec == Init /\ [][Next]_vars

\* Durability: uploads, heartbeats, the periodic persister and restarts of
\* the namenode process run concurrently.
DurPayloads == {Bytes(0), Bytes(CHUNK_SIZE + 1)}
DurBeats ==
    { <<JsonMsg([node_id |-> "1"]), "127.0.0.1">>,
      <<GarbageMsg, "127.0.0.1">> }
DurFaults == {"none", "refused"}

DurNext ==
    \/ \E u \in Uploaders, f \in UploadNames, data \in DurPayloads :
          UploadStart(u, f, data)
    \/ \E u \in Uploaders, fault \in DurFaults : UploadStore(u, fault)
    \/ \E u \in Uploaders : UploadLockChunk(u)
    \/ \E u \in Uploaders : UploadPutChunk(u)
    \/ \E u \in Uploaders : UploadLockFile(u)
    \/ \E u \in Uploaders : UploadPutFile(u)
    \/ \E h \in DurBeats : HeartbeatAccept(h[1], h[2])
    \/ HeartbeatLock
    \/ HeartbeatUpdate
    \/ PersistLock
    \/ PersistWrite
    \/ Restart

SpecDur == Init /\ [][DurNext]_vars

\* The liveness registry: heartbeats of datanode "0", the clock and the
\* status page; datanode "1" stays silent.
LiveBeats ==
    { <<JsonMsg([node_id |-> "0"]), "127.0.0.1">>,
      <<JsonMsg(EmptyMap), "127.0.0.1">> }

LiveNext ==
    \/ \E h \in LiveBeats : HeartbeatAccept(h[1], h[2])
    \/ HeartbeatLock
    \/ HeartbeatUpdate
    \/ IndexLock
    \/ IndexNodes
    \/ IndexRender
    \/ Tick

SpecLive == Init /\ [][LiveNext]_vars

\* Two upload requests and a download request of one filename, served at
\* the same time.
RaceUploaders == {"u1", "u2"}
RacePayloads == {Bytes(CHUNK_SIZE + 1), <<9>>}

InitRace ==
    /\ meta = DefaultMeta
    /\ disk = <<>>
    /\ meta_lock = "free"
    /\ storage = [a \in StoreAddrs |-> EmptyMap]
    /\ now = Epoch
    /\ nextId = 1
    /\ up = [u \in RaceUploaders |-> IdleUpload]
    /\ dl = [d \in Downloaders |-> IdleDownload]
    /\ hb = IdleListener
    /\ pp = "sleep"
    /\ ix = IdleIndex
    /\ cs = [c \in Conns |-> IdleConn]
    /\ net = IdleNet
    /\ log = EmptyLog

RaceNext ==
    \/ \E u \in RaceUploaders, f \in UploadNames, data \in RacePayloads :
          UploadStart(u, f, data)
    \/ \E u \in RaceUploaders, fault \in DurFaults : UploadStore(u, fault)
    \/ \E u \in RaceUploaders : UploadLockChunk(u)
    \/ \E u \in RaceUploaders : UploadPutChunk(u)
    \/ \E u \in RaceUploaders : UploadLockFile(u)
    \/ \E u \in RaceUploaders : UploadPutFile(u)
    \/ \E d \in Downloaders, f \in UploadNames : DownloadStart(d, f)
    \/ \E d \in Downloaders : DownloadGetFile(d)
    \/ \E d \in Downloaders : DownloadLookup(d)
    \/ \E d \in Downloaders, fault \in DurFaults : DownloadRetrieve(d, fault)

SpecRace == InitRace /\ [][RaceNext]_vars

\* Placement: uploads while heartbeats arrive, among them one of a datanode
\* "10" and one of a datanode that runs under the id "0" on another machine.
PlacePayloads == {Bytes(1), Bytes(CHUNK_SIZE + 1)}
PlaceBeats ==
    { <<JsonMsg([node_id |-> "0"]), "10.0.0.2">>,
      <<JsonMsg([node_id |-> "1"]), "127.0.0.1">>,
      <<JsonMsg([node_id |-> "10"]), "127.0.0.1">> }

PlaceNext ==
    \/ \E u \in Uploaders, f \in UploadNames, data \in PlacePayloads :
          UploadStart(u, f, data)
    \/ \E u \in Uploaders, fault \in DurFaults : UploadStore(u, fault)
    \/ \E u \in Uploaders : UploadLockChunk(u)
    \/ \E u \in Uploaders : UploadPutChunk(u)
    \/ \E u \in Uploaders : UploadLockFile(u)
    \/ \E u \in Uploaders : UploadPutFile(u)
    \/ \E h \in PlaceBeats : HeartbeatAccept(h[1], h[2])
    \/ HeartbeatLock
    \/ HeartbeatUpdate

SpecPlace == Init /\ [][PlaceNext]_vars

\* Heartbeat progress: the send_heartbeat loops of the datanodes, other
\* clients of the heartbeat port, and the listener, every thread of the
\* program running on.
FairNext ==
    \/ \E d \in Senders : SenderConnect(d)
    \/ \E d \in Senders : SenderWake(d)
    \/ \E msg \in {EmptyMsg, GarbageMsg} : RogueConnect(msg)
    \/ NetFlip
    \/ HeartbeatAcceptQueued
    \/ HeartbeatLock
    \/ HeartbeatUpdate

SpecFair ==
    /\ Init
    /\ [][FairNext]_vars
    /\ \A d \in Senders : WF_vars(SenderConnect(d)) /\ WF_vars(SenderWake(d))
    /\ WF_vars(HeartbeatAcceptQueued)
    /\ WF_vars(HeartbeatLock)
    /\ WF_vars(HeartbeatUpdate)

\* The heartbeat listener against every kind of connection, the clock and
\* the periodic persister.
BeatNext ==
    \/ \E h \in GoodHeartbeats \cup BadHeartbeats : HeartbeatAccept(h[1], h[2])
    \/ HeartbeatLock
    \/ HeartbeatUpdate
    \/ PersistLock
    \/ PersistWrite
    \/ Tick

SpecBeat == Init /\ [][BeatNext]_vars

\* One chunk store serving the connections of arbitrary clients, a thread
\* per connection.
RawAddrs == {<<"nn", DND_TCP_BASE>>}
RawRequests ==
    { Frame([cmd |-> "STORE", chunk_id |-> 1, filename |-> "a.bin"], <<1, 2>>),
      Frame([cmd |-> "STORE", chunk_id |-> 1, filename |-> "a.bin"], <<9>>),
      Frame([cmd |-> "STORE", filename |-> "a.bin"], <<9>>),
      Frame([cmd |-> "RETRIEVE", chunk_id |-> 1], <<>>),
      Frame([cmd |-> "RETRIEVE", chunk_id |-> 2], <<>>),
      Frame([cmd |-> "RETRIEVE"], <<>>),
      Frame([cmd |-> "DELETE", chunk_id |-> 1], <<>>),
      Frame(EmptyMap, <<>>),
      GarbageFrame,
      ShortFrame }
RespondFaults == {"none", "disconnect"}

StoreNext ==
    \/ \E c \in Conns, a \in RawAddrs, req \in RawRequests : StoreAccept(c, a, req)
    \/ \E c \in Conns : StoreOpen(c)
    \/ \E c \in Conns : StoreWrite(c)
    \/ \E c \in Conns : ChunkExists(c)
    \/ \E c \in Conns : ChunkRead(c)
    \/ \E c \in Conns, fault \in RespondFaults : StoreRespond(c, fault)

SpecStore == Init /\ [][StoreNext]_vars

\* ================================================================ claims
\* the concatenation of the payloads sent under the chunk ids of a list
RECURSIVE ConcatSent(_)
ConcatSent(cids) ==
    IF cids = <<>> THEN <<>>
    ELSE log.sent[Head(cids)] \o ConcatSent(Tail(cids))

\* a RETRIEVE attempt list in which some replica answered OK
Answered(t) == \E i \in 1..Len(t) : t[i][2] = "OK"
\* the placement record of the k-th chunk of download d
RecordOf(d, k) == Get(meta.chunks, dl[d].file_chunks[k], <<>>)
\* every listed replica of the k-th chunk of download d was tried, none answered
AllFailed(d, k) ==
    /\ k <= Len(dl[d].tried)
    /\ Len(dl[d].tried[k]) = Len(RecordOf(d, k))
    /\ ~Answered(dl[d].tried[k])

\* C1 (as claimed): a download of a filename that has been uploaded, in which
\* some recorded replica of every chunk answered, returns exactly the bytes
\* of the upload whose File Entry it read, for every length L >= 0.
C1_RoundTrip ==
    \A d \in Downloaders :
        ( /\ dl[d].pc = "done"
          /\ dl[d].had_entry
          /\ \A k \in 1..Len(dl[d].file_chunks) : ~AllFailed(d, k) )
        => /\ dl[d].status = 200
           /\ dl[d].body = dl[d].expect

\* C2: once every listed replica of a chunk has failed to answer (or the
\* chunk's placement record is empty), the download is over with status 500,
\* the text "missing chunk" and that chunk's id, and its body holds no bytes.
C2_MissingChunkFailsClosed ==
    \A d \in Downloaders : \A k \in 1..Len(dl[d].tried) :
        AllFailed(d, k)
        => /\ dl[d].pc = "done"
           /\ dl[d].status = 500
           /\ dl[d].text = "missing chunk"
           /\ dl[d].cid = dl[d].file_chunks[k]
           /\ dl[d].body = <<>>

\* C2 witness: the second chunk is missing after the first was retrieved.
C2_Witness ==
    \E d \in Downloaders :
        /\ AllFailed(d, 2)
        /\ Len(dl[d].tried[2]) = 2
        /\ dl[d].assembled # <<>>
        /\ dl[d].status = 500

\* C3: the RETRIEVE attempts for a chunk follow its placement record node by
\* node, no attempt follows one that answered OK, and a chunk for which some
\* replica answered is part of the assembled bytes, in chunk order.
C3_ReplicaOrder ==
    \A d \in Downloaders :
        /\ \A k \in 1..Len(dl[d].tried) :
              LET t == dl[d].tried[k]
              IN  /\ Len(t) <= Len(RecordOf(d, k))
                  /\ \A i \in 1..Len(t) :
                        /\ t[i][1] = RecordOf(d, k)[i]
                        /\ i < Len(t) => t[i][2] # "OK"
        /\ LET got == { k \in 1..Len(dl[d].tried) : Answered(dl[d].tried[k]) }
           IN  /\ got = 1..Cardinality(got)
               /\ dl[d].assembled =
                    ConcatSent(SubSeq(dl[d].file_chunks, 1, Cardinality(got)))
               /\ (dl[d].pc = "done" /\ got = 1..Len(dl[d].file_chunks)
                     /\ dl[d].file_chunks # <<>>)
                  => dl[d].status = 200 /\ dl[d].body = dl[d].assembled

\* C3 witness: the first listed replica was unreachable, the second answered,
\* and the download succeeded.
C3_Witness ==
    \E d \in Downloaders :
        /\ dl[d].pc = "done"
        /\ dl[d].status = 200
        /\ dl[d].tried[1] = << <<"0", "error">>, <<"1", "OK">> >>

\* C4 (as claimed): a download answers "file not found" exactly when the
\* catalog has no File Entry for the filename.
C4_NotFoundIffNoEntry ==
    \A d \in Downloaders :
        dl[d].pc = "done"
        => ( (dl[d].status = 404 /\ dl[d].text = "file not found")
             <=> ~dl[d].had_entry )

\* C5: an upload in progress can always take its next step, unless it waits
\* for the lock that another thread holds, and a finished upload has
\* processed every chunk of its bytes, has written the File Entry that lists
\* all its chunk ids in order, and was answered with success, whatever its
\* STORE attempts returned.
C5_UploadCompletes ==
    \A u \in Uploaders :
        /\ up[u].pc \notin {"idle", "done"}
              => ENABLED UploadStep \/ meta_lock \notin {"free", u}
        /\ up[u].pc = "done"
           => /\ Len(up[u].chunks) * CHUNK_SIZE >= Len(up[u].data)
              /\ (Len(up[u].chunks) - 1) * CHUNK_SIZE < Len(up[u].data)
                    \/ up[u].chunks = <<>>
              /\ \A i, j \in 1..Len(up[u].chunks) :
                    i < j => up[u].chunks[i] < up[u].chunks[j]
              /\ up[u].fname \in DOMAIN meta.files
              /\ meta.files[up[u].fname] = up[u].chunks
              /\ [fname |-> up[u].fname, data |-> up[u].data,
                  chunks |-> up[u].chunks] \in log.acked

\* C5 witness: an upload of several chunks finished although every STORE of
\* its first chunk failed.
C5_Witness ==
    \E u \in Uploaders :
        /\ up[u].pc = "done"
        /\ Len(up[u].chunks) >= 2
        /\ meta.chunks[up[u].chunks[1]] = <<>>
        /\ meta.chunks[up[u].chunks[2]] # <<>>

\* the configured replicas whose STORE attempt for cid saw status OK, in
\* the order "0", "1"
OkNodes(cid) ==
    LET ok(n) == Get(log.stored, <<cid, n>>, "none") = "OK"
    IN  (IF ok("0") THEN <<"0">> ELSE <<>>) \o (IF ok("1") THEN <<"1">> ELSE <<>>)

\* C6: every placement record is the list of the replica nodes whose STORE
\* attempt saw status OK, "0" before "1".
C6_PlacementIsOkList ==
    \A cid \in DOMAIN meta.chunks :
        /\ meta.chunks[cid] = OkNodes(cid)
        /\ \A n \in {"0", "1"} : <<cid, n>> \in DOMAIN log.stored

\* C6 witness: the STORE on "0" failed and the one on "1" was answered OK.
C6_Witness ==
    \E cid \in DOMAIN meta.chunks :
        /\ meta.chunks[cid] = <<"1">>
        /\ log.stored[<<cid, "0">>] = "error"

\* C7: a finished upload of L bytes has made ceil(L / CHUNK_SIZE) chunks, all
\* of CHUNK_SIZE bytes but the last, which has the rest; the payloads in
\* File Entry order concatenate to the uploaded bytes; and a chunk store
\* holds a chunk with exactly the payload sent.
C7_Chunking ==
    /\ \A u \in Uploaders :
          up[u].pc = "done"
          => LET L == Len(up[u].data)
                 n == Len(up[u].chunks)
                 size(k) == Len(log.sent[up[u].chunks[k]])
             IN  /\ n * CHUNK_SIZE >= L
                 /\ n > 0 => (n - 1) * CHUNK_SIZE < L
                 /\ \A k \in 1..(n - 1) : size(k) = CHUNK_SIZE
                 /\ n > 0 => size(n) = L - CHUNK_SIZE * (n - 1)
                 /\ ConcatSent(meta.files[up[u].fname]) = up[u].data
    /\ \A a \in StoreAddrs : \A cid \in DOMAIN storage[a] :
          storage[a][cid] = log.sent[cid]

\* C7 witness: 5 units with chunks of 2 make 3 chunks, the last of 1 unit,
\* stored on both replicas.
C7_Witness ==
    \E u \in Uploaders :
        /\ up[u].pc = "done"
        /\ Len(up[u].data) = 2 * CHUNK_SIZE + 1
        /\ Len(up[u].chunks) = 3
        /\ Len(log.sent[up[u].chunks[3]]) = 1
        /\ \A a \in {<<"nn", 7001>>, <<"nn", 7002>>} :
              up[u].chunks[3] \in DOMAIN storage[a]

\* the places where a thread's next statement reads or writes the catalog
AtCatalogAccess(t) ==
    \/ t \in Uploaders /\ up[t].pc \in {"store", "put_chunk", "put_file"}
    \/ t \in Downloaders /\ dl[t].pc \in {"get_file", "lookup", "retrieve"}
    \/ t = "hb" /\ hb.pc = "update"
    \/ t = "pp" /\ pp = "write"
    \/ t = "ix" /\ ix.pc \in {"nodes", "render"}

\* C9 (as claimed): a thread about to read or write the catalog holds the
\* mutation lock.
C9_LockDiscipline ==
    \A t \in Uploaders \cup Downloaders \cup {"hb", "pp", "ix"} :
        AtCatalogAccess(t) => meta_lock = t

\* C8 (as claimed): in the status report, a node with a recorded heartbeat
\* is ALIVE exactly when now - last heartbeat < timeout and DEAD otherwise,
\* and a node without any recorded heartbeat has a status of its own, which
\* is neither ALIVE nor DEAD.
C8_NeverIsAStatus ==
    ix.pc = "render"
    => \A nid \in DOMAIN ix.nodes :
          LET r == ix.nodes[nid]
          IN  IF r.last_heartbeat.text = "never"
              THEN r.status \notin {"ALIVE", "DEAD"}
              ELSE /\ r.status = "ALIVE" <=> ix.now - r.last_heartbeat.at < HEARTBEAT_TIMEOUT
                   /\ r.status = "DEAD" <=> ix.now - r.last_heartbeat.at >= HEARTBEAT_TIMEOUT

\* C8 (amended): the step that builds the status report gives every node of
\* the catalog the status ALIVE exactly when now - last_hb < timeout and DEAD
\* exactly when now - last_hb >= timeout; a node without any recorded
\* heartbeat (last_hb = 0) gets "never" in place of the heartbeat time, and
\* the status DEAD.
C8_LivenessDerivation ==
    [][ (ix.pc = "nodes" /\ ix'.pc = "render")
        => /\ DOMAIN ix'.nodes = DOMAIN meta.datanodes
           /\ \A nid \in DOMAIN meta.datanodes :
                 LET last == meta.datanodes[nid].last_hb
                     r == ix'.nodes[nid]
                 IN  /\ r.status = "ALIVE" <=> now - last < HEARTBEAT_TIMEOUT
                     /\ r.status = "DEAD" <=> now - last >= HEARTBEAT_TIMEOUT
                     /\ last = 0 => /\ r.last_heartbeat.text = "never"
                                    /\ r.status = "DEAD"
                     /\ last > 0 => /\ r.last_heartbeat.text = "time"
                                    /\ r.last_heartbeat.at = last ]_vars

\* C8 witness: a report in which the last heartbeat of "0" is exactly the
\* timeout old and "1" never sent one.
C8_Witness ==
    /\ ix.pc = "render"
    /\ ix.nodes["0"].last_heartbeat.text = "time"
    /\ ix.now - ix.nodes["0"].last_heartbeat.at = HEARTBEAT_TIMEOUT
    /\ ix.nodes["0"].status = "DEAD"
    /\ ix.nodes["1"].last_heartbeat.text = "never"
    /\ ix.nodes["1"].status = "DEAD"

\* every answered upload is in the catalog m: its filename has the File
\* Entry of an answered upload of that filename, and each of its chunks has
\* its placement record
Holds(m) ==
    \A a \in log.acked :
        /\ a.fname \in DOMAIN m.files
        /\ \E b \in log.acked : b.fname = a.fname /\ m.files[a.fname] = b.chunks
        /\ \A i \in 1..Len(a.chunks) :
              /\ a.chunks[i] \in DOMAIN m.chunks
              /\ m.chunks[a.chunks[i]] = OkNodes(a.chunks[i])

Storing(a, id) ==
    { c \in Conns : /\ cs[c].pc \in {"open", "write", "respond"}
                    /\ cs[c].addr = a
                    /\ cs[c].chunk_id = id
                    /\ Get(cs[c].req.hdr, "cmd", "") = "STORE" }

\* C11 (as claimed): once the STOREs of a chunk id have completed, none of
\* them was answered with an error and the blob a RETRIEVE reads is the
\* payload of the STORE that completed last, whether the payloads were
\* identical or different.
C11_LastWriterWins ==
    \A key \in DOMAIN log.stores :
        Storing(key[1], key[2]) = {}
        => /\ log.stores[key].answer = "OK"
           /\ key[2] \in DOMAIN storage[key[1]]
           /\ storage[key[1]][key[2]] = log.stores[key].payload

\* C12: the steps of a RETRIEVE handler leave every chunk store as it is;
\* the existence test leads to the read when the chunk file is there and
\* else to the response NOT_FOUND with an empty payload; the read builds the
\* response OK with the whole blob on disk; and the response built is what
\* the client receives unless the network fails.
C12_RetrieveFrame ==
    [][ \A c \in Conns :
          LET r == cs[c]
              present == r.chunk_id \in DOMAIN storage[r.addr]
          IN  /\ (r.pc = "exists" /\ cs'[c].pc # "exists")
                    => /\ storage' = storage
                       /\ present => cs'[c].pc = "read"
                       /\ ~present
                            => /\ cs'[c].pc = "respond"
                               /\ cs'[c].resp =
                                    << [status |-> "NOT_FOUND", payload |-> <<>>] >>
              /\ (r.pc = "read" /\ cs'[c].pc # "read")
                    => /\ storage' = storage
                       /\ cs'[c].pc = "respond"
                       /\ cs'[c].resp =
                            << [status |-> "OK",
                                payload |-> storage[r.addr][r.chunk_id]] >>
              /\ ( /\ r.pc = "respond" /\ cs'[c].pc = "closed"
                   /\ r.req.hdr["cmd"] = "RETRIEVE" )
                    => /\ storage' = storage
                       /\ r.resp # <<>>
                       /\ cs'[c].fault = "none" => cs'[c].got = r.resp ]_vars

\* C12 witness: one client was answered NOT_FOUND for a chunk the store does
\* not have, another received the two bytes stored under chunk id 1.
C12_Witness ==
    \E c, e \in Conns :
        /\ cs[c].pc = "closed" /\ cs[e].pc = "closed"
        /\ cs[c].req.hdr = [cmd |-> "RETRIEVE", chunk_id |-> 2]
        /\ cs[c].got = << [status |-> "NOT_FOUND", payload |-> <<>>] >>
        /\ 2 \notin DOMAIN storage[cs[c].addr]
        /\ cs[e].req.hdr = [cmd |-> "RETRIEVE", chunk_id |-> 1]
        /\ cs[e].got = << [status |-> "OK", payload |-> <<1, 2>>] >>
        /\ storage[cs[e].addr][1] = <<1, 2>>

\* the request of the handler record r is one the protocol does not allow:
\* it does not decode, has no cmd, an unknown cmd, or no chunk_id
BadRequest(r) ==
    \/ r.req.kind = "garbage"
    \/ /\ r.req.kind = "frame"
       /\ \/ "cmd" \notin DOMAIN r.req.hdr
          \/ r.req.hdr["cmd"] \notin {"STORE", "RETRIEVE"}
          \/ "chunk_id" \notin DOMAIN r.req.hdr

\* C14 (as claimed): a connection that ended on a request the protocol does
\* not allow, or on an I/O failure, got no response and its handler stored
\* or changed no chunk; and the thread can serve the next connection.
C14_ErrorsCloseSilently ==
    \A c \in Conns :
        (cs[c].pc = "closed" /\ (BadRequest(cs[c]) \/ cs[c].fault # "none"))
        => /\ cs[c].got = <<>>
           /\ ~cs[c].wrote
           /\ \E a \in RawAddrs, req \in RawRequests : ENABLED StoreAccept(c, a, req)

\* C14 (amended): a connection that ended on a request the protocol does not
\* allow, or on an I/O failure while the request was read, got no response,
\* none was built, and its handler stored or changed no chunk; a connection
\* that broke while the response was sent got no response; and in each case
\* the thread can serve the next connection.
C14_ProtocolFaults ==
    \A c \in Conns :
        cs[c].pc = "closed"
        => /\ (BadRequest(cs[c]) \/ cs[c].fault = "recv")
                => /\ cs[c].got = <<>>
                   /\ cs[c].resp = <<>>
                   /\ ~cs[c].wrote
           /\ cs[c].fault = "send" => cs[c].got = <<>>
           /\ \E a \in RawAddrs, req \in RawRequests : ENABLED StoreAccept(c, a, req)

\* C14 witness: a thread whose last connection sent a STORE without chunk_id
\* and was dropped has since stored a chunk and answered OK.
C14_Witness ==
    \E c \in Conns :
        /\ cs[c].pc = "closed"
        /\ cs[c].prev = "dropped"
        /\ cs[c].wrote
        /\ cs[c].got = << [status |-> "OK", payload |-> <<>>] >>
        /\ \E e \in Conns :
              /\ cs[e].pc = "closed"
              /\ cs[e].req.hdr = [cmd |-> "STORE", filename |-> "a.bin"]
              /\ cs[e].got = <<>> /\ ~cs[e].wrote

\* a heartbeat message that is empty, does not parse, has no node_id, or
\* has a node_id that does not end in a digit
Malformed(msg) ==
    \/ msg.kind # "json"
    \/ "node_id" \notin DOMAIN msg.obj
    \/ msg.obj["node_id"] \notin {"0", "1", "10"}

\* C13: the step that receives a malformed heartbeat leaves the catalog and
\* the snapshot as they are and the listener at accept, so that no malformed
\* message ever reaches the update; and the update of a well-formed
\* heartbeat records its time and host, whatever was dropped before.
C13_MalformedHeartbeat ==
    [][ /\ (hb.pc = "accept" /\ hb' # hb /\ Malformed(hb'.seen))
              => /\ hb'.pc = "accept"
                 /\ hb'.last = "dropped"
                 /\ meta' = meta
                 /\ disk' = disk
                 /\ \E h \in GoodHeartbeats : (ENABLED HeartbeatAccept(h[1], h[2]))'
        /\ (hb.pc = "update" /\ hb'.pc = "accept")
              => /\ ~Malformed(hb.seen)
                 /\ hb'.last = "recorded"
                 /\ hb.node_id \in DOMAIN meta'.datanodes
                 /\ meta'.datanodes[hb.node_id].last_hb = hb.ts
                 /\ meta'.datanodes[hb.node_id].host = hb.host ]_vars

\* C13 witness: a heartbeat of "1" was recorded right after a message was
\* dropped.
C13_Witness ==
    /\ hb.pc = "accept"
    /\ hb.last = "recorded"
    /\ hb.before = "dropped"
    /\ meta.datanodes["1"].last_hb > Epoch
    /\ meta.datanodes["1"].host = "127.0.0.1"

\* C15: the STORE attempts for a chunk go to "0" and then to "1" and to no
\* other node, and its placement record names no other node, whichever
\* nodes heartbeats have registered and whether "0" and "1" are ALIVE or
\* DEAD; a chunk with a placement record had both attempts.
C15_FixedReplicaPair ==
    /\ \A cid \in DOMAIN log.targets :
          log.targets[cid] \in { <<"0">>, <<"0", "1">> }
    /\ \A cid \in DOMAIN meta.chunks :
          /\ cid \in DOMAIN log.targets
          /\ log.targets[cid] = <<"0", "1">>
          /\ \A i \in 1..Len(meta.chunks[cid]) : meta.chunks[cid][i] \in {"0", "1"}

\* C15 witness: a chunk was placed on "0" and "1", both DEAD on the status
\* page for want of any heartbeat, while the registered node "10" is ALIVE.
C15_Witness ==
    /\ "10" \in DOMAIN meta.datanodes
    /\ index_nodes(meta, now)["10"].status = "ALIVE"
    /\ index_nodes(meta, now)["0"].status = "DEAD"
    /\ index_nodes(meta, now)["1"].status = "DEAD"
    /\ \E cid \in DOMAIN meta.chunks :
          /\ meta.chunks[cid] = <<"0", "1">>
          /\ \A u \in Uploaders : up[u].chunk_id = cid => up[u].pc = "done"

\* the chunk store reached through the descriptor the catalog has for node n
StoreOf(n) == <<Machine(meta.datanodes[n].host), meta.datanodes[n].tcp_port>>

\* C20 (as claimed): for every chunk and every node of its placement record,
\* the chunk store reached through the node's recorded host and port holds
\* the chunk with exactly the bytes sent, whatever heartbeats have rewritten.
C20_PlacementValid ==
    \A cid \in DOMAIN meta.chunks :
        \A i \in 1..Len(meta.chunks[cid]) :
            LET n == meta.chunks[cid][i]
            IN  /\ n \in DOMAIN meta.datanodes
                /\ StoreOf(n) \in StoreAddrs
                /\ cid \in DOMAIN storage[StoreOf(n)]
                /\ storage[StoreOf(n)][cid] = log.sent[cid]

\* C18: in the catalog and in the snapshot on disk, every chunk id that a
\* File Entry lists has a placement record.
C18_ReferentialIntegrity ==
    /\ \A f \in DOMAIN meta.files : \A i \in 1..Len(meta.files[f]) :
          meta.files[f][i] \in DOMAIN meta.chunks
    /\ disk # <<>>
          => \A f \in DOMAIN disk[1].files : \A i \in 1..Len(disk[1].files[f]) :
                disk[1].files[f][i] \in DOMAIN disk[1].chunks

\* C18 witness: the snapshot has the File Entry of an upload of two chunks,
\* the second without any replica, and the heartbeat of "1" that was recorded
\* while the upload was storing its second chunk.
C18_Witness ==
    /\ disk # <<>>
    /\ "a.bin" \in DOMAIN disk[1].files
    /\ Len(disk[1].files["a.bin"]) = 2
    /\ disk[1].chunks[disk[1].files["a.bin"][1]] = <<"0", "1">>
    /\ disk[1].chunks[disk[1].files["a.bin"][2]] = <<>>
    /\ disk[1].datanodes["1"].last_hb > 0
    /\ hb.last = "recorded"

\* the chunk list of thread u's upload is complete: one id per chunk of its
\* bytes, and the payloads sent under them concatenate to the bytes
Complete(u) ==
    /\ Len(up[u].chunks) = NumChunks(Len(up[u].data))
    /\ ConcatSent(up[u].chunks) = up[u].data

\* C16: the File Entry of a filename is at all times the whole chunk list of
\* one answered upload of that filename, with the bytes of the upload that
\* wrote the entry last; and once two concurrent uploads of the filename
\* have finished it is the complete list of one of the two.
C16_LastWriterPerFilename ==
    /\ \A f \in DOMAIN meta.files :
          \E a \in log.acked :
              /\ a.fname = f
              /\ a.chunks = meta.files[f]
              /\ a.data = log.uploaded[f]
              /\ ConcatSent(meta.files[f]) = a.data
    /\ \A u, v \in DOMAIN up :
          (u # v /\ up[u].pc = "done" /\ up[v].pc = "done" /\ up[u].fname = up[v].fname)
          => /\ Complete(u) /\ Complete(v)
             /\ meta.files[up[u].fname] \in {up[u].chunks, up[v].chunks}

\* C16 witness: two uploads that drew their chunk ids in turns have both
\* finished; the entry is the list of the one of two chunks.
C16_Witness ==
    \E u, v \in DOMAIN up :
        /\ up[u].pc = "done" /\ up[v].pc = "done"
        /\ up[u].chunks = <<1, 3>>
        /\ up[v].chunks = <<2>>
        /\ up[u].fname = up[v].fname
        /\ meta.files[up[u].fname] = <<1, 3>>

\* C19: a download that is over has either failed, with no bytes in its
\* body, or returns exactly the bytes of the answered upload whose File
\* Entry it read, whatever uploads of the filename have finished since.
C19_DownloadIsolation ==
    \A d \in DOMAIN dl :
        dl[d].pc = "done"
        => \/ dl[d].status \in {404, 500} /\ dl[d].body = <<>>
           \/ /\ dl[d].status = 200
              /\ dl[d].body = dl[d].expect
              /\ \E a \in log.acked :
                    /\ a.fname = dl[d].filename
                    /\ a.data = dl[d].body
                    /\ a.chunks = dl[d].file_chunks

\* C19 witness: a download returned the three bytes of the first upload
\* although a second upload of the filename, of other bytes, had replaced
\* the File Entry before the download fetched its second chunk.
C19_Witness ==
    \E d \in DOMAIN dl :
        /\ dl[d].pc = "done"
        /\ dl[d].status = 200
        /\ dl[d].body = Bytes(CHUNK_SIZE + 1)
        /\ dl[d].file_chunks = <<1, 3>>
        /\ meta.files[dl[d].filename] = <<2>>
        /\ log.uploaded[dl[d].filename] = <<9>>

\* the step that records a heartbeat of node id: its descriptor gets the
\* time of the heartbeat, at which the status page reports it ALIVE
Records(id) ==
    /\ hb.pc = "update" /\ hb.node_id = id
    /\ hb'.pc = "accept" /\ hb'.last = "recorded"
    /\ meta'.datanodes[id].last_hb = hb.ts
    /\ index_nodes(meta', hb.ts)[id].status = "ALIVE"

\* C17: if from some point on the heartbeat port stays reachable, then the
\* heartbeat of every running datanode is recorded again and again,
\* whatever attempts failed and whatever connections were dropped before.
C17_HeartbeatProgress ==
    (<>[](net.reachable))
        => \A d \in Senders : []<>(<<Records(d.id)>>_vars)

\* C17 witness: the heartbeat of "1" is recorded after an attempt of its
\* loop had failed and the listener had dropped the connection before.
C17_Witness ==
    /\ net.snd["1"].failed
    /\ hb.pc = "accept"
    /\ hb.last = "recorded"
    /\ hb.before = "dropped"
    /\ meta.datanodes["1"].last_hb = now
    /\ index_nodes(meta, now)["1"].status = "ALIVE"
    /\ net.snd["0"].failed
    /\ meta.datanodes["0"].last_hb = 0

====
